---- MODULE Spec2Model ----
(***************************************************************************)
(* A model of searchutil.py: the lazy-deletion PriorityQueue, uniform cost *)
(* search, depth-first search and the memoized dynamicProgramming solver,  *)
(* run on every small search problem the bounds below allow.               *)
(***************************************************************************)
EXTENDS Integers, Sequences, FiniteSets, TLC

VARIABLES problem,   \* the SearchProblem handed to solve / dynamicProgramming
          calls,     \* the solve calls made so far on the algorithm instance
          ucs,       \* the UniformCostSearch instance and the locals of its solve
          dfs,       \* the DepthFirstSearch instance and the call stack of its solve
          dp,        \* the outcome of dynamicProgramming(problem)
          pq,        \* a PriorityQueue instance driven directly by a caller
          pqLog      \* what the caller of pq observed: the calls and their results

vars == <<problem, calls, ucs, dfs, dp, pq, pqLog>>

----------------------------------------------------------------------------
(* Bounds of the model *)

\* states of a problem are 1..NumStates
NumStates == 3
\* a problem has at most MaxEdges edges in all
MaxEdges == 3
\* edge costs are 0..MaxCost
MaxCost == 1
\* number of update / removeMin calls made on the stand-alone queue
MaxOps == 4
\* number of solve calls made on one algorithm instance
MaxCalls == 2

States == 1..NumStates
Costs == 0..MaxCost

----------------------------------------------------------------------------
(* Python values *)

\* None, and a value that is not None
None == <<>>
Some(x) == <<x>>
\* an attribute that was never assigned (a fresh instance before solve)
Unset == <<"no", "attribute">>

\* a dict over states: absent keys map to None
EmptyDict == [s \in States |-> None]

\* an algorithm the caller does not use in the run at hand
Unused == [pc |-> "unused"]

\* no solve call made yet; found: whether the call before the current one
\* found a path
NoCalls == [n |-> 0, found |-> FALSE]

----------------------------------------------------------------------------
(* PriorityQueue *)

DONE == -100000

\* heap entries are (priority, state) tuples; Python orders tuples
\* lexicographically
EntryLess(a, b) == a[1] < b[1] \/ (a[1] = b[1] /\ a[2] < b[2])

\* heappush as a plain append: the list is no heap and pops come first in,
\* first out
HeapPush_Fifo(heap, e) == Append(heap, e)

\* heapq.heappush: the heap is represented by its entries in ascending order
\* (a sorted array is a heap); heappop returns the least entry whatever the
\* arrangement of the array, so the arrangement is not part of the state
HeapPush(heap, e) ==
    LET k == Cardinality({i \in 1..Len(heap) : ~EntryLess(e, heap[i])})
    IN  SubSeq(heap, 1, k) \o <<e>> \o SubSeq(heap, k + 1, Len(heap))

PQ_init == [heap |-> <<>>, priorities |-> EmptyDict]

\* update that inserts an absent state and never lowers a priority
PQ_update_NoDecrease(q, state, newPriority) ==
    IF q.priorities[state] = None
    THEN [q   |-> [heap       |-> HeapPush(q.heap, <<newPriority, state>>),
                   priorities |-> [q.priorities EXCEPT ![state] = Some(newPriority)]],
          ret |-> TRUE]
    ELSE [q |-> q, ret |-> FALSE]

\* update that also takes a priority equal to the recorded one
PQ_update_OrEqual(q, state, newPriority) ==
    LET oldPriority == q.priorities[state]
    IN  IF oldPriority = None \/ newPriority <= oldPriority[1]
        THEN [q   |-> [heap       |-> HeapPush(q.heap, <<newPriority, state>>),
                       priorities |-> [q.priorities EXCEPT ![state] = Some(newPriority)]],
              ret |-> TRUE]
        ELSE [q |-> q, ret |-> FALSE]

\* update(state, newPriority): the queue after the call and the value returned
PQ_update(q, state, newPriority) ==
    LET oldPriority == q.priorities[state]
    IN  IF oldPriority = None \/ newPriority < oldPriority[1]
        THEN [q   |-> [heap       |-> HeapPush(q.heap, <<newPriority, state>>),
                       priorities |-> [q.priorities EXCEPT ![state] = Some(newPriority)]],
              ret |-> TRUE]
        ELSE [q |-> q, ret |-> FALSE]

\* removeMin(): the queue after the call and the (state, priority) returned
\* removeMin without the test that skips entries of finalized states
PQ_removeMin_NoSkip(q) ==
    IF q.heap = <<>>
    THEN [q |-> q, state |-> None, priority |-> None]
    ELSE LET priority == Head(q.heap)[1]
             state == Head(q.heap)[2]
         IN  [q |-> [heap |-> Tail(q.heap),
                     priorities |-> [q.priorities EXCEPT ![state] = Some(DONE)]],
              state |-> Some(state), priority |-> Some(priority)]

RECURSIVE PQ_removeMin(_)
PQ_removeMin(q) ==
    IF Len(q.heap) = 0
    THEN [q |-> q, state |-> None, priority |-> None]
    ELSE LET e  == Head(q.heap)
             q1 == [q EXCEPT !.heap = Tail(q.heap)]
         IN  IF q1.priorities[e[2]] = Some(DONE)
             THEN PQ_removeMin(q1)
             ELSE [q        |-> [q1 EXCEPT !.priorities[e[2]] = Some(DONE)],
                   state    |-> Some(e[2]),
                   priority |-> Some(e[1])]

----------------------------------------------------------------------------
(* A caller driving one PriorityQueue with arbitrary calls *)

\* priorities the caller passes: ordinary ones, the sentinel, and below it
Priorities == {DONE - 1, DONE, 0, 1, 2}

PQ_Idle == [op |-> "none", state |-> None, priority |-> None, ret |-> FALSE,
            before |-> PQ_init]

InitPQ ==
    /\ problem = [start |-> 1, goals |-> {}, succ |-> [s \in States |-> <<>>]]
    /\ calls = NoCalls
    /\ ucs = Unused
    /\ dfs = Unused
    /\ dp = Unused
    /\ pq = PQ_init
    /\ pqLog = [n |-> 0, last |-> PQ_Idle, returned |-> <<>>,
                best |-> EmptyDict]

PQ_Update ==
    /\ pqLog.n < MaxOps
    /\ \E state \in States, newPriority \in Priorities :
         LET r == PQ_update(pq, state, newPriority)
             b == pqLog.best[state]
         IN  /\ pq' = r.q
             /\ pqLog' = [pqLog EXCEPT
                    !.n = @ + 1,
                    !.last = [op |-> "update", state |-> Some(state),
                              priority |-> Some(newPriority), ret |-> r.ret,
                              before |-> pq],
                    !.best[state] = IF b = None \/ newPriority < b[1]
                                    THEN Some(newPriority) ELSE b]
    /\ UNCHANGED <<problem, calls, ucs, dfs, dp>>

PQ_RemoveMin ==
    /\ pqLog.n < MaxOps
    /\ LET r == PQ_removeMin(pq)
       IN  /\ pq' = r.q
           /\ pqLog' = [pqLog EXCEPT
                  !.n = @ + 1,
                  !.last = [op |-> "removeMin", state |-> r.state,
                            priority |-> r.priority, ret |-> FALSE,
                            before |-> pq],
                  !.returned = IF r.state = None THEN @ ELSE Append(@, r.state[1])]
    /\ UNCHANGED <<problem, calls, ucs, dfs, dp>>

NextPQ == PQ_Update \/ PQ_RemoveMin

SpecPQ == InitPQ /\ [][NextPQ]_vars

----------------------------------------------------------------------------
(* SearchProblem: the problems the algorithms are run on *)

\* an edge as the caller lists it: (source, destination, cost)
EdgeT == States \X States \X Costs
EdgeLists == UNION {[1..n -> EdgeT] : n \in 0..MaxEdges}

\* the edges of el that leave s, in the order of el
RECURSIVE From(_, _)
From(el, s) ==
    IF el = <<>> THEN <<>>
    ELSE IF Head(el)[1] = s THEN <<Head(el)>> \o From(Tail(el), s)
    ELSE From(Tail(el), s)

\* succAndCost(s) is a list of (action, newState, cost); the action of an
\* edge is its rank among the edges of its source when the problem is built
BuildSucc(el) ==
    [s \in States |->
        LET l == From(el, s)
        IN  [k \in 1..Len(l) |-> <<k, l[k][2], l[k][3]>>]]

Problems ==
    {[start |-> s, goals |-> g, succ |-> BuildSucc(el)] :
        s \in States, g \in SUBSET States, el \in EdgeLists}

startState(p) == p.start
isGoal(p, state) == state \in p.goals
succAndCost(p, state) == p.succ[state]

----------------------------------------------------------------------------
(* UniformCostSearch *)

\* solve without its call of actions.reverse()
Reverse_Skipped(l) == l

RECURSIVE Reverse(_)
Reverse(l) == IF l = <<>> THEN <<>> ELSE Append(Reverse(Tail(l)), Head(l))

\* UniformCostSearch(): no result attribute exists before the first solve
UCS_new ==
    [pc |-> "idle", actions |-> Unset, totalCost |-> Unset,
     numStatesExplored |-> Unset, solution |-> Unset,
     frontier |-> PQ_init, backpointers |-> EmptyDict,
     state |-> None, pastCost |-> None, i |-> 0]

\* solve that does not set actions and totalCost to None at its start
UCS_solve_KeepResult(u, p) ==
    [u EXCEPT !.pc = "loop",
              !.numStatesExplored = Some(0), !.solution = None,
              !.frontier = PQ_update(PQ_init, startState(p), 0).q,
              !.backpointers = EmptyDict,
              !.state = None, !.pastCost = None, !.i = 0]

\* solve, up to the loop: reset the result fields, create the frontier and
\* the backpointers, add the start state
UCS_solve(u, p) ==
    [u EXCEPT !.pc = "loop",
              !.actions = None, !.totalCost = None,
              !.numStatesExplored = Some(0), !.solution = None,
              !.frontier = PQ_update(PQ_init, startState(p), 0).q,
              !.backpointers = EmptyDict,
              !.state = None, !.pastCost = None, !.i = 0]

\* the reconstruction loop: walk the backpointers from state to the start,
\* appending the actions. A missing key raises KeyError; a walk of more than
\* NumStates steps has repeated a state and never ends.
RECURSIVE UCS_walk(_, _, _, _, _)
UCS_walk(state, startSt, backpointers, actions, steps) ==
    IF state = startSt THEN [status |-> "ok", actions |-> actions]
    ELSE IF backpointers[state] = None
         THEN [status |-> "KeyError", actions |-> actions]
    ELSE IF steps > NumStates
         THEN [status |-> "hang", actions |-> actions]
    ELSE LET bp == backpointers[state][1]
         IN  UCS_walk(bp[2], startSt, backpointers, Append(actions, bp[1]),
                      steps + 1)

\* one pass of the while loop up to the for loop: removeMin, the goal test
\* and the extraction of the solution
UCS_loop(u, p) ==
    LET r == PQ_removeMin(u.frontier)
        u1 == [u EXCEPT !.frontier = r.q]
    IN  IF r.state = None
        THEN [u1 EXCEPT !.pc = "done"]
        ELSE LET state == r.state[1]
                 pastCost == r.priority[1]
                 u2 == [u1 EXCEPT !.numStatesExplored = Some(@[1] + 1),
                                  !.state = Some(state),
                                  !.pastCost = Some(pastCost)]
             IN  IF isGoal(p, state)
                 THEN LET w == UCS_walk(state, startState(p), u2.backpointers,
                                        <<>>, 0)
                      IN  IF w.status = "ok"
                          THEN [u2 EXCEPT !.pc = "done",
                                          !.solution = Some(state),
                                          !.actions = Some(Reverse(w.actions)),
                                          !.totalCost = Some(pastCost)]
                          ELSE [u2 EXCEPT !.pc = w.status,
                                          !.solution = Some(state),
                                          !.actions = Some(w.actions)]
                 ELSE IF succAndCost(p, state) = <<>>
                      THEN [u2 EXCEPT !.pc = "loop"]
                      ELSE [u2 EXCEPT !.pc = "expand", !.i = 1]

\* the for loop recording the backpointer whatever frontier.update returns
UCS_expand_AlwaysPoint(u, p) ==
    LET state == u.state[1]
        pastCost == u.pastCost[1]
        successors == succAndCost(p, state)
        action == successors[u.i][1]
        newState == successors[u.i][2]
        cost == successors[u.i][3]
        r == PQ_update(u.frontier, newState, pastCost + cost)
        u1 == [u EXCEPT !.frontier = r.q,
                        !.backpointers[newState] = Some(<<action, state>>)]
    IN  IF u.i < Len(successors)
        THEN [u1 EXCEPT !.i = @ + 1]
        ELSE [u1 EXCEPT !.pc = "loop"]

\* the for loop passing the edge cost alone to frontier.update
UCS_expand_EdgeCostOnly(u, p) ==
    LET state == u.state[1]
        successors == succAndCost(p, state)
        action == successors[u.i][1]
        newState == successors[u.i][2]
        cost == successors[u.i][3]
        r == PQ_update(u.frontier, newState, cost)
        u1 == [u EXCEPT !.frontier = r.q,
                        !.backpointers[newState] =
                            IF r.ret THEN Some(<<action, state>>) ELSE @]
    IN  IF u.i < Len(successors)
        THEN [u1 EXCEPT !.i = @ + 1]
        ELSE [u1 EXCEPT !.pc = "loop"]

\* one pass of the for loop: update the frontier with the i-th successor
UCS_expand(u, p) ==
    LET state == u.state[1]
        pastCost == u.pastCost[1]
        successors == succAndCost(p, state)
        action == successors[u.i][1]
        newState == successors[u.i][2]
        cost == successors[u.i][3]
        r == PQ_update(u.frontier, newState, pastCost + cost)
        u1 == [u EXCEPT !.frontier = r.q,
                        !.backpointers[newState] =
                            IF r.ret THEN Some(<<action, state>>) ELSE @]
    IN  IF u.i < Len(successors)
        THEN [u1 EXCEPT !.i = @ + 1]
        ELSE [u1 EXCEPT !.pc = "loop"]

\* the step solve takes next
UCS_step(u, p) ==
    IF u.pc = "loop" THEN UCS_loop(u, p)
    ELSE IF u.pc = "expand" THEN UCS_expand(u, p)
    ELSE u

InitUCS ==
    /\ problem \in Problems
    /\ calls = NoCalls
    /\ ucs = UCS_new
    /\ dfs = Unused
    /\ dp = Unused
    /\ pq = PQ_init
    /\ pqLog = [n |-> 0]

UCS_Solve ==
    /\ ucs.pc = "idle"
    /\ ucs' = UCS_solve(ucs, problem)
    /\ calls' = [n |-> 1, found |-> FALSE]
    /\ UNCHANGED <<problem, dfs, dp, pq, pqLog>>

UCS_Loop ==
    /\ ucs.pc = "loop"
    /\ ucs' = UCS_loop(ucs, problem)
    /\ UNCHANGED <<problem, calls, dfs, dp, pq, pqLog>>

UCS_Expand ==
    /\ ucs.pc = "expand"
    /\ ucs' = UCS_expand(ucs, problem)
    /\ UNCHANGED <<problem, calls, dfs, dp, pq, pqLog>>

NextUCS == UCS_Solve \/ UCS_Loop \/ UCS_Expand

SpecUCS == InitUCS /\ [][NextUCS]_vars

FairUCS == SpecUCS /\ WF_vars(NextUCS)

\* solve from the loop on, until it returns or raises
RECURSIVE UCS_run(_, _)
UCS_run(u, p) ==
    IF u.pc \in {"loop", "expand"} THEN UCS_run(UCS_step(u, p), p) ELSE u

\* a fresh instance after solve(p)
UCS_fresh(p) == UCS_run(UCS_solve(UCS_new, p), p)

\* the caller calls solve again on the same instance, with a problem over
\* the same edges and another start state or goal test
UCS_Resolve ==
    /\ ucs.pc = "done"
    /\ calls.n < MaxCalls
    /\ \E s \in States, g \in SUBSET States :
         /\ problem' = [problem EXCEPT !.start = s, !.goals = g]
         /\ ucs' = UCS_solve(ucs, problem')
    /\ calls' = [n |-> calls.n + 1, found |-> ucs.totalCost # None]
    /\ UNCHANGED <<dfs, dp, pq, pqLog>>

----------------------------------------------------------------------------
(* DepthFirstSearch *)

\* the deepest chain of recurse calls the interpreter is taken to allow. A
\* chain of more than NumStates calls has entered some state twice with no
\* solution recorded, so it repeats for ever and Python ends it with
\* RuntimeError (maximum recursion depth exceeded) whatever its limit.
RecursionLimit == NumStates

\* DepthFirstSearch(): no result attribute exists before the first solve
DFS_new ==
    [pc |-> "idle", solution |-> Unset, actions |-> Unset,
     totalCost |-> Unset, numStatesExplored |-> Unset, size |-> Unset,
     stack |-> <<>>, history |-> <<>>]

\* a call recurse(state, pastCost, history): where it stands, and the index
\* of the successor its for loop is at
Frame(state, pastCost) ==
    [state |-> state, pastCost |-> pastCost, at |-> "entry", i |-> 0]

\* solve that sets the counters to zero on a fresh instance only
DFS_solve_KeepStats(d, p) ==
    [d EXCEPT !.pc = "run",
              !.solution = None, !.actions = None, !.totalCost = None,
              !.numStatesExplored = IF @ = Unset THEN Some(0) ELSE @,
              !.size = IF @ = Unset THEN Some(0) ELSE @,
              !.stack = <<[state |-> startState(p), pastCost |-> 0,
                           at |-> "entry", i |-> 0]>>,
              !.history = <<>>]

\* solve that does not set actions and totalCost to None at its start
DFS_solve_KeepResult(d, p) ==
    [d EXCEPT !.pc = "run",
              !.solution = None,
              !.numStatesExplored = Some(0), !.size = Some(0),
              !.stack = <<[state |-> startState(p), pastCost |-> 0,
                           at |-> "entry", i |-> 0]>>,
              !.history = <<>>]

\* solve, up to the first call of recurse
DFS_solve(d, p) ==
    [d EXCEPT !.pc = "run",
              !.solution = None, !.actions = None, !.totalCost = None,
              !.numStatesExplored = Some(0), !.size = Some(0),
              !.stack = <<Frame(startState(p), 0)>>,
              !.history = <<>>]

Top(d) == d.stack[Len(d.stack)]
SetTop(d, f) == [d EXCEPT !.stack[Len(d.stack)] = f]

\* the actions of the edges in history
Labels(history) == [k \in 1..Len(history) |-> history[k][1]]

\* recurse counting the call before the test that a solution has been recorded
DFS_entry_CountAll(d, p) ==
    LET f == Top(d)
        d1 == [d EXCEPT !.numStatesExplored = Some(@[1] + 1)]
    IN  IF d.solution # None
        THEN SetTop(d1, [f EXCEPT !.at = "ret"])
        ELSE IF isGoal(p, f.state)
             THEN SetTop([d1 EXCEPT !.solution = Some(f.state),
                                    !.actions = Some(Labels(d.history)),
                                    !.totalCost = Some(f.pastCost)],
                         [f EXCEPT !.at = "ret"])
             ELSE LET successors == succAndCost(p, f.state)
                      d2 == [d1 EXCEPT !.size = Some(@[1] + Len(successors))]
                  IN  IF successors = <<>>
                      THEN SetTop(d2, [f EXCEPT !.at = "ret"])
                      ELSE SetTop(d2, [f EXCEPT !.at = "loop", !.i = 1])

\* recurse without the test that a solution has been recorded
DFS_entry_NoStop(d, p) ==
    LET f == Top(d)
        d1 == [d EXCEPT !.numStatesExplored = Some(@[1] + 1)]
    IN  IF isGoal(p, f.state)
        THEN SetTop([d1 EXCEPT !.solution = Some(f.state),
                               !.actions = Some(Labels(d.history)),
                               !.totalCost = Some(f.pastCost)],
                    [f EXCEPT !.at = "ret"])
        ELSE LET successors == succAndCost(p, f.state)
                 d2 == [d1 EXCEPT !.size = Some(@[1] + Len(successors))]
             IN  IF successors = <<>>
                 THEN SetTop(d2, [f EXCEPT !.at = "ret"])
                 ELSE SetTop(d2, [f EXCEPT !.at = "loop", !.i = 1])

\* the entry of recurse down to the for loop
DFS_entry(d, p) ==
    LET f == Top(d)
    IN  IF d.solution # None
        THEN SetTop(d, [f EXCEPT !.at = "ret"])
        ELSE LET d1 == [d EXCEPT !.numStatesExplored = Some(@[1] + 1)]
             IN  IF isGoal(p, f.state)
                 THEN SetTop([d1 EXCEPT !.solution = Some(f.state),
                                        !.actions = Some(Labels(d.history)),
                                        !.totalCost = Some(f.pastCost)],
                             [f EXCEPT !.at = "ret"])
                 ELSE LET successors == succAndCost(p, f.state)
                          d2 == [d1 EXCEPT !.size = Some(@[1] + Len(successors))]
                      IN  IF successors = <<>>
                          THEN SetTop(d2, [f EXCEPT !.at = "ret"])
                          ELSE SetTop(d2, [f EXCEPT !.at = "loop", !.i = 1])

\* the for loop calling recurse with the cost of the edge in place of
\* pastCost + cost
DFS_call_EdgeCostOnly(d, p) ==
    LET f == Top(d)
        edge == succAndCost(p, f.state)[f.i]
        d1 == [d EXCEPT !.history = Append(@, edge)]
    IN  IF Len(d.stack) >= RecursionLimit
        THEN [d1 EXCEPT !.pc = "RuntimeError"]
        ELSE [d1 EXCEPT !.stack = Append(@, Frame(edge[2], edge[3]))]

\* the body of the for loop up to the recursive call: extend history and
\* call recurse on the successor
DFS_call(d, p) ==
    LET f == Top(d)
        edge == succAndCost(p, f.state)[f.i]
        d1 == [d EXCEPT !.history = Append(@, edge)]
    IN  IF Len(d.stack) >= RecursionLimit
        THEN [d1 EXCEPT !.pc = "RuntimeError"]
        ELSE [d1 EXCEPT !.stack = Append(@, Frame(edge[2], f.pastCost + edge[3]))]

\* a return after which the caller leaves the edge in history
DFS_return_NoPop(d, p) ==
    LET rest == SubSeq(d.stack, 1, Len(d.stack) - 1)
    IN  IF rest = <<>>
        THEN [d EXCEPT !.stack = rest, !.pc = "done"]
        ELSE LET c == rest[Len(rest)]
                 more == c.i < Len(succAndCost(p, c.state))
                 c1 == IF more THEN [c EXCEPT !.i = @ + 1]
                               ELSE [c EXCEPT !.at = "ret"]
             IN  [d EXCEPT !.stack = [rest EXCEPT ![Len(rest)] = c1]]

\* a call returns: the caller pops history and moves to its next successor;
\* when the outermost call returns, solve returns
DFS_return(d, p) ==
    LET rest == SubSeq(d.stack, 1, Len(d.stack) - 1)
    IN  IF rest = <<>>
        THEN [d EXCEPT !.stack = rest, !.pc = "done"]
        ELSE LET c == rest[Len(rest)]
                 more == c.i < Len(succAndCost(p, c.state))
                 c1 == IF more THEN [c EXCEPT !.i = @ + 1]
                               ELSE [c EXCEPT !.at = "ret"]
             IN  [d EXCEPT !.stack = [rest EXCEPT ![Len(rest)] = c1],
                           !.history = SubSeq(@, 1, Len(@) - 1)]

\* the step solve takes next
DFS_step(d, p) ==
    IF d.pc # "run" THEN d
    ELSE IF Top(d).at = "entry" THEN DFS_entry(d, p)
    ELSE IF Top(d).at = "loop" THEN DFS_call(d, p)
    ELSE DFS_return(d, p)

InitDFS ==
    /\ problem \in Problems
    /\ calls = NoCalls
    /\ ucs = Unused
    /\ dfs = DFS_new
    /\ dp = Unused
    /\ pq = PQ_init
    /\ pqLog = [n |-> 0]

DFS_Solve ==
    /\ dfs.pc = "idle"
    /\ dfs' = DFS_solve(dfs, problem)
    /\ calls' = [n |-> 1, found |-> FALSE]
    /\ UNCHANGED <<problem, ucs, dp, pq, pqLog>>

DFS_Entry ==
    /\ dfs.pc = "run" /\ Top(dfs).at = "entry"
    /\ dfs' = DFS_entry(dfs, problem)
    /\ UNCHANGED <<problem, calls, ucs, dp, pq, pqLog>>

DFS_Call ==
    /\ dfs.pc = "run" /\ Top(dfs).at = "loop"
    /\ dfs' = DFS_call(dfs, problem)
    /\ UNCHANGED <<problem, calls, ucs, dp, pq, pqLog>>

DFS_Return ==
    /\ dfs.pc = "run" /\ Top(dfs).at = "ret"
    /\ dfs' = DFS_return(dfs, problem)
    /\ UNCHANGED <<problem, calls, ucs, dp, pq, pqLog>>

NextDFS == DFS_Solve \/ DFS_Entry \/ DFS_Call \/ DFS_Return

SpecDFS == InitDFS /\ [][NextDFS]_vars

FairDFS == SpecDFS /\ WF_vars(NextDFS)

\* solve from the first call of recurse on, until it returns or raises
RECURSIVE DFS_run(_, _)
DFS_run(d, p) == IF d.pc = "run" THEN DFS_run(DFS_step(d, p), p) ELSE d

\* a fresh instance after solve(p)
DFS_fresh(p) == DFS_run(DFS_solve(DFS_new, p), p)

\* the caller calls solve again on the same instance (after a return, or
\* after catching the RuntimeError), with a problem over the same edges and
\* another start state or goal test
DFS_Resolve ==
    /\ dfs.pc \in {"done", "RuntimeError"}
    /\ calls.n < MaxCalls
    /\ \E s \in States, g \in SUBSET States :
         /\ problem' = [problem EXCEPT !.start = s, !.goals = g]
         /\ dfs' = DFS_solve(dfs, problem')
    /\ calls' = [n |-> calls.n + 1, found |-> dfs.totalCost # None]
    /\ UNCHANGED <<ucs, dp, pq, pqLog>>

\* one instance of either algorithm, solving one problem after another
SpecReuse ==
    (InitUCS \/ InitDFS) /\
    [][NextUCS \/ UCS_Resolve \/ NextDFS \/ DFS_Resolve]_vars

----------------------------------------------------------------------------
(* dynamicProgramming *)

\* Python's order on the tuples (futureCost, action, newState, cost)
TupleLess(a, b) ==
    \E k \in 1..4 : a[k] < b[k] /\ \A j \in 1..(k - 1) : a[j] = b[j]

\* recurse(state) at the given depth of the call chain: the value returned
\* or the error raised, and the cache afterwards. The generator handed to
\* min is consumed edge by edge (DP_min); min of no tuple raises ValueError;
\* a chain of more than NumStates calls has entered a state that is being
\* computed, is not yet cached, and so recurses until RuntimeError.
RECURSIVE DP_recurse(_, _, _, _), DP_min(_, _, _, _, _, _)
DP_recurse(p, state, cache, depth) ==
    IF depth > RecursionLimit
    THEN [status |-> "RuntimeError", value |-> 0, cache |-> cache]
    ELSE IF isGoal(p, state)
    THEN [status |-> "ok", value |-> 0, cache |-> cache]
    ELSE IF cache[state] # None
    THEN [status |-> "ok", value |-> cache[state][1][1], cache |-> cache]
    ELSE LET m == DP_min(p, state, cache, depth, 1, None)
         IN  IF m.status # "ok" THEN m
             ELSE IF m.best = None
             THEN [status |-> "ValueError", value |-> 0, cache |-> m.cache]
             ELSE [status |-> "ok", value |-> m.best[1][1],
                   cache |-> [m.cache EXCEPT ![state] = m.best]]

\* min over the tuples of the successors k.. of state, given the least
\* tuple of the successors before k
DP_min(p, state, cache, depth, k, best) ==
    LET successors == succAndCost(p, state)
    IN  IF k > Len(successors)
        THEN [status |-> "ok", best |-> best, cache |-> cache]
        ELSE LET action == successors[k][1]
                 newState == successors[k][2]
                 cost == successors[k][3]
                 r == DP_recurse(p, newState, cache, depth + 1)
                 t == <<cost + r.value, action, newState, cost>>
             IN  IF r.status # "ok"
                 THEN [status |-> r.status, best |-> best, cache |-> r.cache]
                 ELSE DP_min(p, state, r.cache, depth, k + 1,
                             IF best = None \/ TupleLess(t, best[1])
                             THEN Some(t) ELSE best)

\* the reconstruction loop: follow the cached edges from state to a goal
RECURSIVE DP_walk(_, _, _, _, _)
DP_walk(p, state, cache, history, steps) ==
    IF isGoal(p, state) THEN [status |-> "ok", history |-> history]
    ELSE IF cache[state] = None
         THEN [status |-> "KeyError", history |-> history]
    ELSE IF steps > NumStates
         THEN [status |-> "hang", history |-> history]
    ELSE LET c == cache[state][1]
         IN  DP_walk(p, c[3], cache, Append(history, <<c[2], c[3], c[4]>>),
                     steps + 1)

\* dynamicProgramming(problem): (totalCost, history) when it returns, and
\* the exception when it raises
dynamicProgramming(p) ==
    LET r == DP_recurse(p, startState(p), EmptyDict, 1)
    IN  IF r.status # "ok"
        THEN [pc |-> r.status, totalCost |-> None, history |-> None,
              cache |-> r.cache]
        ELSE LET w == DP_walk(p, startState(p), r.cache, <<>>, 0)
             IN  IF w.status # "ok"
                 THEN [pc |-> w.status, totalCost |-> None, history |-> None,
                       cache |-> r.cache]
                 ELSE [pc |-> "done", totalCost |-> Some(r.value),
                       history |-> Some(w.history), cache |-> r.cache]

\* before the call
DP_new ==
    [pc |-> "idle", totalCost |-> None, history |-> None, cache |-> EmptyDict]

InitDP ==
    /\ problem \in Problems
    /\ calls = NoCalls
    /\ ucs = Unused
    /\ dfs = Unused
    /\ dp = DP_new
    /\ pq = PQ_init
    /\ pqLog = [n |-> 0]

DP_Call ==
    /\ dp.pc = "idle"
    /\ dp' = dynamicProgramming(problem)
    /\ UNCHANGED <<problem, calls, ucs, dfs, pq, pqLog>>

NextDP == DP_Call

SpecDP == InitDP /\ [][NextDP]_vars

\* a caller that cross-checks: UniformCostSearch().solve(problem), then
\* dynamicProgramming(problem)
InitCross ==
    /\ problem \in Problems
    /\ calls = NoCalls
    /\ ucs = UCS_new
    /\ dfs = Unused
    /\ dp = DP_new
    /\ pq = PQ_init
    /\ pqLog = [n |-> 0]

DP_AfterUCS ==
    /\ ucs.pc = "done"
    /\ DP_Call

SpecCross == InitCross /\ [][NextUCS \/ DP_AfterUCS]_vars

----------------------------------------------------------------------------
(* What the claims speak of: paths of a problem and their costs *)

Edges(p, s) == {succAndCost(p, s)[k] : k \in 1..Len(succAndCost(p, s))}

RECURSIVE ReachFrom(_, _)
ReachFrom(p, S) ==
    LET T == S \cup UNION {{e[2] : e \in Edges(p, s)} : s \in S}
    IN  IF T = S THEN S ELSE ReachFrom(p, T)

\* the states some path from the start state leads to
Reachable(p) == ReachFrom(p, {startState(p)})
GoalReachable(p) == Reachable(p) \cap p.goals # {}

\* no path from s leads back to s, for the states reachable from the start
Acyclic(p) ==
    \A s \in Reachable(p) :
        s \notin ReachFrom(p, {e[2] : e \in Edges(p, s)})

SetMin(S) == CHOOSE x \in S : \A y \in S : x <= y

\* the tuple <<f[1], ..., f[n]>>
RECURSIVE Tabulate(_, _)
Tabulate(f, n) == IF n = 0 THEN <<>> ELSE Append(Tabulate(f, n - 1), f[n])

\* least cost of a path of at most n edges from the start state to each
\* state (None: no such path)
RECURSIVE PathCost(_, _)
PathCost(p, n) ==
    IF n = 0
    THEN Tabulate([t \in States |-> IF t = startState(p) THEN Some(0) ELSE None],
                  NumStates)
    ELSE LET d == PathCost(p, n - 1)
             via(t) == UNION {{d[s][1] + e[3] :
                                 e \in {f \in Edges(p, s) : f[2] = t}} :
                              s \in {x \in States : d[x] # None}}
             best(t) == (IF d[t] = None THEN {} ELSE {d[t][1]}) \cup via(t)
         IN  Tabulate([t \in States |->
                         IF best(t) = {} THEN None ELSE Some(SetMin(best(t)))],
                      NumStates)

\* the minimum, over all start-to-goal paths, of the sum of the edge costs:
\* with costs >= 0 a path of more than NumStates edges repeats a state and
\* is no cheaper than the path without the repetition
MinCost(p) ==
    LET d == PathCost(p, NumStates)
        c == {d[g][1] : g \in {x \in p.goals : d[x] # None}}
    IN  IF c = {} THEN None ELSE Some(SetMin(c))

\* where the paths from s that carry the given action labels end, with
\* the cost c of the path so far added to the costs of their edges
RECURSIVE PathEnds(_, _, _, _)
PathEnds(p, s, labels, c) ==
    IF labels = <<>> THEN {<<s, c>>}
    ELSE UNION {PathEnds(p, e[2], Tail(labels), c + e[3]) :
                  e \in {f \in Edges(p, s) : f[1] = Head(labels)}}

\* actions label a path of edges from the start state to a goal state whose
\* costs sum to totalCost
ValidPath(p, actions, totalCost) ==
    \E r \in PathEnds(p, startState(p), actions, 0) :
        r[1] \in p.goals /\ r[2] = totalCost

\* the orders in which a list can be given
PermsOf(l) ==
    LET n == Len(l)
        bij == {f \in [1..n -> 1..n] : \A i, j \in 1..n : i # j => f[i] # f[j]}
    IN  {[k \in 1..n |-> l[f[k]]] : f \in bij}

RECURSIVE SuccPerms(_, _)
SuccPerms(p, n) ==
    IF n = 0 THEN {<<>>}
    ELSE {Append(t, l) : t \in SuccPerms(p, n - 1), l \in PermsOf(p.succ[n])}

\* the problems that differ from p only in the order in which succAndCost
\* lists the edges of each state
Permuted(p) == {[p EXCEPT !.succ = q] : q \in SuccPerms(p, NumStates)}

----------------------------------------------------------------------------
(* Claims about UniformCostSearch.solve *)

\* C1: on every problem with non-negative costs in which a goal is
\* reachable, solve terminates and totalCost is the minimum cost of a
\* start-to-goal path
C1_UCSOptimal ==
    GoalReachable(problem) =>
        <>(ucs.pc = "done" /\ ucs.totalCost = MinCost(problem))

\* a solve that found the goal over a two-edge path cheaper than a direct edge
C1_Witness ==
    /\ ucs.pc = "done"
    /\ ucs.totalCost = MinCost(problem)
    /\ ucs.actions # None
    /\ Len(ucs.actions[1]) = 2
    /\ \E e \in Edges(problem, startState(problem)) :
         e[2] = ucs.solution[1] /\ e[3] > ucs.totalCost[1]

\* C4: on every problem with non-negative costs in which no goal is
\* reachable, cycles or not, solve terminates without raising and leaves
\* actions and totalCost None
C4_UCSNoPath ==
    ~GoalReachable(problem) =>
        <>(ucs.pc = "done" /\ ucs.actions = None /\ ucs.totalCost = None)

\* a solve that ran out of frontier on a problem with a cycle
C4_Witness ==
    /\ ucs.pc = "done"
    /\ ~GoalReachable(problem)
    /\ ~Acyclic(problem)
    /\ ucs.actions = None /\ ucs.totalCost = None
    /\ ucs.numStatesExplored[1] >= 2

----------------------------------------------------------------------------
(* Claims about PriorityQueue *)

\* C2: whatever update and removeMin calls are made on one queue, with any
\* priorities, removeMin never returns a state an earlier removeMin returned
C2_NeverReturnedTwice ==
    \A i, j \in 1..Len(pqLog.returned) :
        i # j => pqLog.returned[i] # pqLog.returned[j]

\* the sequence s without its k-th element
DropAt(s, k) == SubSeq(s, 1, k - 1) \o SubSeq(s, k + 1, Len(s))

\* C3: update returns True exactly when it changes the recorded priority of
\* the state: when the state is absent or newPriority is strictly less it
\* records newPriority and pushes one heap entry, otherwise it changes
\* neither the priority map nor the heap; it never raises a recorded priority
C3_UpdateContract ==
    pqLog.last.op = "update" =>
        LET before == pqLog.last.before
            state == pqLog.last.state[1]
            newPriority == pqLog.last.priority[1]
            old == before.priorities[state]
            lower == old = None \/ newPriority < old[1]
        IN  /\ pqLog.last.ret = lower
            /\ pqLog.last.ret = (pq.priorities # before.priorities)
            /\ lower =>
                 /\ pq.priorities =
                        [before.priorities EXCEPT ![state] = Some(newPriority)]
                 /\ \E k \in 1..Len(pq.heap) :
                        /\ pq.heap[k] = <<newPriority, state>>
                        /\ DropAt(pq.heap, k) = before.heap
            /\ ~lower => pq = before
            /\ old # None => pq.priorities[state][1] <= old[1]

\* an update that lowered the priority of a waiting state, and one refused
\* because the new priority equals the recorded one
C3_Witness ==
    /\ pqLog.last.op = "update"
    /\ ~pqLog.last.ret
    /\ pqLog.last.before.priorities[pqLog.last.state[1]] = pqLog.last.priority
    /\ Len(pq.heap) = 2
    /\ pq.heap[1][2] = pq.heap[2][2]

\* C9: two problems that differ only in the order in which succAndCost
\* lists each state's edges get the same totalCost from solve
C9_OrderIndependent ==
    ucs.pc = "done" =>
        \A q \in Permuted(problem) : UCS_fresh(q).totalCost = ucs.totalCost

\* a solve whose actions differ from those found on a reordered problem,
\* at the same totalCost
C9_Witness ==
    /\ ucs.pc = "done"
    /\ ucs.totalCost # None
    /\ \E q \in Permuted(problem) :
         /\ q # problem
         /\ UCS_fresh(q).actions # ucs.actions
         /\ UCS_fresh(q).totalCost = ucs.totalCost

----------------------------------------------------------------------------
(* Claims about DepthFirstSearch.solve *)

DFS_Ended == dfs.pc \in {"done", "RuntimeError"}

DFS_FoundValidPath ==
    /\ dfs.pc = "done"
    /\ dfs.actions # None
    /\ dfs.totalCost # None
    /\ ValidPath(problem, dfs.actions[1], dfs.totalCost[1])

DFS_FoundNoPath ==
    /\ dfs.pc = "done"
    /\ dfs.actions = None
    /\ dfs.totalCost = None

----------------------------------------------------------------------------
(* Claims about dynamicProgramming *)

\* C5: on every acyclic problem in which no goal is reachable,
\* dynamicProgramming returns an absent total cost and an absent action
\* sequence and raises nothing
C5_DPNoPath ==
    (dp.pc # "idle" /\ Acyclic(problem) /\ ~GoalReachable(problem)) =>
        (dp.pc = "done" /\ dp.totalCost = None /\ dp.history = None)

\* C8: on every acyclic problem with non-negative costs in which a goal is
\* reachable, the total cost dynamicProgramming returns equals the
\* totalCost UniformCostSearch.solve set
C8_DPEqualsUCS ==
    (ucs.pc = "done" /\ dp.pc # "idle" /\
     Acyclic(problem) /\ GoalReachable(problem)) =>
        (dp.pc = "done" /\ dp.totalCost = ucs.totalCost)

----------------------------------------------------------------------------
(* Claims about the result fields *)

UCS_result(u) == <<u.actions, u.totalCost, u.numStatesExplored>>
DFS_result(d) == <<d.actions, d.totalCost, d.numStatesExplored, d.size>>

\* C10: after any sequence of solve calls on one instance the result fields
\* are those a fresh instance holds after solving the last problem only
C10_ResultsOverwritten ==
    /\ ucs.pc = "done" => UCS_result(ucs) = UCS_result(UCS_fresh(problem))
    /\ dfs.pc \in {"done", "RuntimeError"} =>
         DFS_result(dfs) = DFS_result(DFS_fresh(problem))

\* a second solve that found no path after a first one that found one
C10_Witness ==
    /\ ucs.pc = "done"
    /\ calls.n = 2 /\ calls.found
    /\ ucs.actions = None /\ ucs.totalCost = None

----------------------------------------------------------------------------
(* Claims about the path UniformCostSearch.solve extracts *)

\* C11: when solve succeeds, actions labels a path of edges from the start
\* state to the goal state that was removed from the frontier, and the costs
\* of these edges sum to totalCost; when the start state is a goal, actions
\* is the empty list and totalCost is 0
C11_UCSPathOfEdges ==
    (ucs.pc = "done" /\ ucs.totalCost # None) =>
        /\ ucs.actions # None /\ ucs.solution # None
        /\ isGoal(problem, ucs.solution[1])
        /\ <<ucs.solution[1], ucs.totalCost[1]>> \in
              PathEnds(problem, startState(problem), ucs.actions[1], 0)
        /\ isGoal(problem, startState(problem)) =>
              (ucs.actions = Some(<<>>) /\ ucs.totalCost = Some(0))

\* a solve that extracted a two-edge path whose first edge is the cheaper of
\* two edges between the same pair of states
C11_Witness ==
    /\ ucs.pc = "done"
    /\ ucs.totalCost # None
    /\ Len(ucs.actions[1]) = 2
    /\ ucs.actions[1][1] # ucs.actions[1][2]
    /\ \E e, f \in Edges(problem, startState(problem)) :
         /\ e[1] = ucs.actions[1][1]
         /\ f[2] = e[2] /\ f[3] > e[3]

----------------------------------------------------------------------------
(* Claims about the order of removal in UniformCostSearch.solve *)

\* C12: with non-negative costs the priorities that successive removeMin
\* calls of one solve return never decrease
C12_RemovalsNonDecreasing ==
    [][(ucs.pastCost # None /\ ucs'.pastCost # None) =>
          ucs'.pastCost[1] >= ucs.pastCost[1]]_vars

\* the third removal of a solve returned a priority above the second
C12_Witness ==
    /\ ucs.pc \in {"loop", "expand", "done"}
    /\ ucs.numStatesExplored = Some(3)
    /\ ucs.pastCost # None /\ ucs.pastCost[1] >= 2

\* the states removeMin has marked as removed from the frontier
Finalized(u) == {s \in States : u.frontier.priorities[s] = Some(DONE)}

\* C13: during one solve no state is removed from the frontier more than
\* once (the number of removals equals the number of distinct states
\* removed), so numStatesExplored never exceeds the number of states
\* reachable from the start state, and the backpointer entry of a removed
\* state is never written again
C13_RemovedOnce ==
    [][ucs.pc \in {"loop", "expand"} =>
          /\ ucs'.numStatesExplored[1] = Cardinality(Finalized(ucs'))
          /\ ucs'.numStatesExplored[1] <= Cardinality(Reachable(problem))
          /\ \A s \in Finalized(ucs) :
                ucs'.backpointers[s] = ucs.backpointers[s]]_vars

\* the for loop has just tried an edge into a removed state other than the
\* start state, whose superseded entry is still in the heap
C13_Witness ==
    /\ ucs.pc = "loop"
    /\ ucs.state # None
    /\ succAndCost(problem, ucs.state[1]) # <<>>
    /\ LET successors == succAndCost(problem, ucs.state[1])
           newState == successors[Len(successors)][2]
       IN  /\ newState \in Finalized(ucs)
           /\ newState # startState(problem)
           /\ \E k \in 1..Len(ucs.frontier.heap) :
                 ucs.frontier.heap[k][2] = newState

----------------------------------------------------------------------------
(* Claims about PriorityQueue.removeMin *)

\* C14: whatever update and removeMin calls are made, with any priorities,
\* removeMin returns a state that no earlier removeMin returned, with the
\* lowest priority ever passed to update for it, and no other inserted state
\* not yet returned has a lower best priority; it returns (None, None)
\* exactly when every state ever inserted has already been returned
C14_RemoveMinContract ==
    pqLog.last.op = "removeMin" =>
        LET ret == pqLog.last.state
            earlier == IF ret = None THEN pqLog.returned
                       ELSE SubSeq(pqLog.returned, 1, Len(pqLog.returned) - 1)
            finalized == {earlier[k] : k \in 1..Len(earlier)}
            inserted == {s \in States : pqLog.best[s] # None}
        IN  IF ret = None
            THEN inserted \subseteq finalized
            ELSE /\ ret[1] \notin finalized
                 /\ pqLog.last.priority = pqLog.best[ret[1]]
                 /\ \A t \in inserted \ finalized :
                       pqLog.best[t][1] >= pqLog.last.priority[1]

----------------------------------------------------------------------------
(* Claims about DepthFirstSearch.solve *)

\* the paths of at most n edges from s that end in a goal state, each given
\* by the positions of its edges in the successor lists
RECURSIVE GoalPaths(_, _, _)
GoalPaths(p, s, n) ==
    (IF isGoal(p, s) THEN {<<>>} ELSE {}) \cup
    (IF n = 0 THEN {}
     ELSE UNION {{<<k>> \o r : r \in GoalPaths(p, succAndCost(p, s)[k][2], n - 1)} :
                   k \in 1..Len(succAndCost(p, s))})

\* a comes before b in depth-first pre-order: a is a proper prefix of b, or
\* a has the smaller position where they first differ
PreOrderLess(a, b) ==
    \/ Len(a) < Len(b) /\ SubSeq(b, 1, Len(a)) = a
    \/ \E k \in 1..Len(a) :
         /\ k <= Len(b)
         /\ SubSeq(a, 1, k - 1) = SubSeq(b, 1, k - 1)
         /\ a[k] < b[k]

\* the actions of the edges at the positions path, followed from s
RECURSIVE ActionsAlong(_, _, _)
ActionsAlong(p, s, path) ==
    IF path = <<>> THEN <<>>
    ELSE LET e == succAndCost(p, s)[Head(path)]
         IN  <<e[1]>> \o ActionsAlong(p, e[2], Tail(path))

\* C15: on an acyclic problem with a reachable goal, the actions solve
\* returns are those of the first start-to-goal path in depth-first
\* pre-order with successors tried in succAndCost order, the least by
\* successor position among the paths that end in a goal
C15_DFSFirstPath ==
    (dfs.pc = "done" /\ Acyclic(problem) /\ GoalReachable(problem)) =>
        LET paths == GoalPaths(problem, startState(problem), NumStates)
            first == CHOOSE a \in paths :
                        \A b \in paths \ {a} : PreOrderLess(a, b)
        IN  dfs.actions =
                Some(ActionsAlong(problem, startState(problem), first))

\* a solve that returned a two-edge path through its first successor although
\* the second successor of the start state is a goal
C15_Witness ==
    /\ dfs.pc = "done"
    /\ Acyclic(problem)
    /\ dfs.actions # None
    /\ Len(dfs.actions[1]) = 2
    /\ Len(succAndCost(problem, startState(problem))) >= 2
    /\ dfs.actions[1][1] = succAndCost(problem, startState(problem))[1][1]
    /\ isGoal(problem, succAndCost(problem, startState(problem))[2][2])

\* C16: once a solution is recorded, every later call of recurse returns at
\* its entry test, and solution, actions, totalCost, numStatesExplored and
\* size keep their values until solve returns, while the active calls go on
\* appending to and popping from history
C16_FrozenAfterSolution ==
    [][(dfs.pc = "run" /\ dfs.solution # None) =>
          /\ dfs'.solution = dfs.solution
          /\ DFS_result(dfs') = DFS_result(dfs)
          /\ Top(dfs).at = "entry" =>
                /\ dfs'.stack = SetTop(dfs, [Top(dfs) EXCEPT !.at = "ret"]).stack
                /\ dfs'.history = dfs.history]_vars

\* a call of recurse made after the solution was recorded stands at its entry
\* test, with an edge in history that is not on the recorded path
C16_Witness ==
    /\ dfs.pc = "run"
    /\ dfs.solution # None
    /\ Top(dfs).at = "entry"
    /\ Len(dfs.stack) = 3
    /\ Labels(dfs.history) # dfs.actions[1]

\* the sum of the costs of the edges in history
RECURSIVE CostOf(_)
CostOf(history) ==
    IF history = <<>> THEN 0 ELSE history[1][3] + CostOf(Tail(history))

\* C17: at the entry of every call recurse(state, pastCost, history), history
\* is the sequence of edges the active calls followed from the start state
\* to state, its length is the recursion depth and pastCost is the sum of
\* its costs; every append is matched by a pop, so history is empty when
\* the outermost call returns
C17_HistoryIsCallChain ==
    /\ (dfs.pc = "run" /\ Top(dfs).at = "entry") =>
          /\ Len(dfs.history) = Len(dfs.stack) - 1
          /\ dfs.stack[1].state = startState(problem)
          /\ \A k \in 1..Len(dfs.history) :
                /\ dfs.stack[k].i \in 1..Len(succAndCost(problem, dfs.stack[k].state))
                /\ dfs.history[k] =
                      succAndCost(problem, dfs.stack[k].state)[dfs.stack[k].i]
                /\ dfs.history[k][2] = dfs.stack[k + 1].state
          /\ Top(dfs).pastCost = CostOf(dfs.history)
    /\ dfs.pc = "done" => dfs.history = <<>>

\* a call two levels deep entered after its caller's caller had backtracked
\* from its first successor, over edges of total cost 2
C17_Witness ==
    /\ dfs.pc = "run"
    /\ Top(dfs).at = "entry"
    /\ Len(dfs.history) = 2
    /\ dfs.stack[1].i = 2
    /\ Top(dfs).pastCost = 2

----------------------------------------------------------------------------
(* Claims about the path dynamicProgramming reconstructs *)

\* the state history leads to from the start state, after k of its edges
StateAfter(p, history, k) == IF k = 0 THEN startState(p) ELSE history[k][2]

\* history is a chain of edges of p from the start state to a goal state,
\* each of them the edge cached as the minimizing one for the state it leaves
DP_HistoryFollowsCache(p, history, cache) ==
    /\ \A k \in 1..Len(history) :
          LET state == StateAfter(p, history, k - 1)
          IN  /\ history[k] \in Edges(p, state)
              /\ cache[state] # None
              /\ history[k] = SubSeq(cache[state][1], 2, 4)
    /\ isGoal(p, StateAfter(p, history, Len(history)))

\* dynamicProgramming returned a history that follows the cache to a goal
\* state and whose costs sum to the total cost it returned
DP_ReturnedPath ==
    /\ dp.pc = "done"
    /\ dp.totalCost # None /\ dp.history # None
    /\ DP_HistoryFollowsCache(problem, dp.history[1], dp.cache)
    /\ CostOf(dp.history[1]) = dp.totalCost[1]
    /\ isGoal(problem, startState(problem)) =>
          (dp.totalCost = Some(0) /\ dp.history = Some(<<>>))

\* C18: on every acyclic problem with a reachable goal the history
\* dynamicProgramming returns is a sequence of (action, destination, cost)
\* edges from the start state that follows at each state the cached
\* minimizing edge, ends at a goal state and has costs summing to the
\* returned total cost; when the start state is a goal the result is total
\* cost 0 and an empty history
C18_DPHistory ==
    (dp.pc # "idle" /\ Acyclic(problem) /\ GoalReachable(problem)) =>
        DP_ReturnedPath

----------------------------------------------------------------------------
(* Claims about the backpointers of UniformCostSearch.solve *)

\* the states that have been inserted into the frontier
Inserted(u) == {s \in States : u.frontier.priorities[s] # None}

\* C19: with non-negative costs, in every state reached during solve, every
\* state other than the start state that has been inserted into the frontier
\* has a backpointer entry, the start state has none, and following the
\* backpointers from any such state reaches the start state without
\* repeating a state; the reconstruction loop never looks up a missing key
\* and always terminates
C19_BackpointersWellFormed ==
    /\ ucs.pc \notin {"KeyError", "hang"}
    /\ ucs.pc \in {"loop", "expand", "done"} =>
          /\ ucs.backpointers[startState(problem)] = None
          /\ \A s \in Inserted(ucs) \ {startState(problem)} :
                /\ ucs.backpointers[s] # None
                /\ UCS_walk(s, startState(problem), ucs.backpointers,
                            <<>>, 0).status = "ok"

\* during a solve a state has a backpointer that does not lead straight to
\* the start state and replaced an earlier one, whose entry is still in the
\* heap
C19_Witness ==
    /\ ucs.pc \in {"loop", "expand"}
    /\ \E s \in Inserted(ucs) :
         /\ ucs.backpointers[s] # None
         /\ ucs.backpointers[s][1][2] # startState(problem)
         /\ Cardinality({k \in 1..Len(ucs.frontier.heap) :
                           ucs.frontier.heap[k][2] = s}) = 2

====
